---- MODULE Spec2Model ----
(***************************************************************************)
(* Food recommendation system: the retrieval engine of shared_functions.py *)
(* (collection population, similarity search, filtered similarity search)  *)
(* and the context / fallback / generation logic of                        *)
(* enhanced_rag_chatbot.py, and the session loops of the three programs.    *)
(*                                                                         *)
(* Numbers: a distance is an integer count of 1/DistUnit, so the cosine    *)
(* distance range [0,2] is 0..2*DistUnit and the similarity score          *)
(* 1 - distance is DistUnit - d (it may be negative).                      *)
(* Optional arguments (None or a value) are sequences of length 0 or 1.    *)
(* Text built by the f-strings is a sequence of entries, one per line or    *)
(* sentence; text returned by the generation backend is a record           *)
(* [lead, core, trail] of the number of leading whitespace characters, the *)
(* length of the part between them, and the number of trailing whitespace  *)
(* characters.                                                             *)
(***************************************************************************)
EXTENDS Integers, Sequences, FiniteSets, TLC

VARIABLES
    source,           \* the content of the data file handed to load_food_data
    food_data,        \* what load_food_data returned (the global food_items)
    load_raised,      \* load_food_data propagated an exception
    stage,            \* how far start-up has come
    collection,       \* the index: sequence of documents [id, metadata]
    populated,        \* populate_similarity_collection has run
    populate_raised,  \* populate_similarity_collection propagated an exception
    upserts,          \* populate calls on the collection since it was created
    call,             \* the arguments of the last search call
    where_clause,     \* the filter handed to collection.query
    queries_issued,   \* number of collection.query calls of the last search
    raw_hits,         \* what collection.query returned (<<>> when it raised)
    index_raised,     \* collection.query raised in the last search
    search_results,   \* the value the last search returned
    search_raised,    \* the last search propagated an exception
    gen_query,        \* generation: the query argument
    gen_results,      \* generation: the search_results argument
    gen_query2,       \* comparison: the second query
    gen_results2,     \* comparison: the results of the second query
    gen_op,           \* generation: the function last applied
    prompt,           \* the prompt handed to the gateway (query and context)
    gateway,          \* what client_openai...create did in the last call
    gateway_calls,    \* number of gateway invocations of the last call
    gen_output,       \* the value the last generation function returned
    gen_raised,       \* the last generation function propagated an exception
    inputs,           \* session: the lines typed in the current iteration
    engine_calls,     \* session: the search calls of the current iteration
    shown,            \* session: the progress message and the result title
    conversation_history, \* the list of enhanced_rag_food_chatbot
    handled           \* the free-text queries the chatbot has handled so far

vars == <<source, food_data, load_raised, stage, collection, populated,
          populate_raised, upserts, call, where_clause, queries_issued,
          raw_hits, index_raised, search_results, search_raised, gen_query,
          gen_results, gen_query2, gen_results2, gen_op, prompt, gateway,
          gateway_calls, gen_output, gen_raised, inputs, engine_calls, shown,
          conversation_history, handled>>

loadVars == <<source, food_data, load_raised>>

indexVars == <<collection, populated, populate_raised, upserts>>

searchVars == <<call, where_clause, queries_issued, raw_hits, index_raised,
                search_results, search_raised>>

genInputs == <<gen_query, gen_results, gen_query2, gen_results2>>

genVars == <<gen_query, gen_results, gen_query2, gen_results2, gen_op, prompt,
             gateway, gateway_calls, gen_output, gen_raised>>

sessVars == <<inputs, engine_calls, shown, conversation_history, handled>>

----------------------------------------------------------------------------
(* Bounds *)

MaxCatalog == 4     \* number of items a catalog is drawn from
DistUnit == 1       \* a distance is a multiple of 1/DistUnit
MaxPad == 1         \* most whitespace characters on one side of a reply
MaxRecords == 2     \* most records of a source whose fields are varied
MaxUpserts == 2     \* most populate calls on one collection
MaxInputs == 6      \* most free-text queries typed in one chatbot session

MaxDistance == 2 * DistUnit

----------------------------------------------------------------------------
(* Values *)

None == <<>>
Some(v) == <<v>>

Min(a, b) == IF a < b THEN a ELSE b

\* Python's dict.get(key, default) and `key in dict`.
Has(rec, key) == key \in DOMAIN rec
Get(rec, key, default) == IF key \in DOMAIN rec THEN rec[key] ELSE default

\* ', '.join(list): the elements with the separator between them.
RECURSIVE Join(_)
Join(list) ==
    IF Len(list) = 0 THEN <<>>
    ELSE IF Len(list) = 1 THEN <<list[1]>>
    ELSE <<list[1], ", ">> \o Join(Tail(list))

\* str(food_id): an id is the sequence of its "_"-separated parts, so that
\* "7" is <<7>> and "7_1" is <<7, 1>>.
IdStr(n) == <<n>>

----------------------------------------------------------------------------
(* shared_functions.py: load_food_data *)

\* A food_id of the source is a number or a string; str() of the number n is
\* the one-part string <<n>>, str() of a string is the string.
IntId(n) == [type |-> "int", n |-> n]
StrId(parts) == [type |-> "str", parts |-> parts]
StrOf(id) == IF id.type = "int" THEN IdStr(id.n) ELSE id.parts

\* `if key not in item: item[key] = default`.
SetDefault(item, key, default) ==
    IF Has(item, key) THEN item ELSE (key :> default) @@ item

\* The values of the feature mapping that are truthy, joined with ", "
\* (a feature mapping is the sequence of its values; "" is a falsy value).
TasteProfile(item) ==
    IF Has(item, "food_features")
    THEN Join(SelectSeq(item["food_features"], LAMBDA value : value # ""))
    ELSE <<>>

\* A repair of the numbering that is off by one: str(i) for the 0-based i.
LoadItemZeroBased(item, p) ==
    LET a == IF Has(item, "food_id")
             THEN [item EXCEPT !["food_id"] = StrOf(item["food_id"])]
             ELSE ("food_id" :> IdStr(p - 1)) @@ item
        b == SetDefault(a, "food_ingredients", <<>>)
        c == SetDefault(b, "food_description", "")
        d == SetDefault(c, "cuisine_type", "Unknown")
        e == SetDefault(d, "food_calories_per_serving", 0)
    IN ("taste_profile" :> TasteProfile(e)) @@ e

\* The body of the for loop for the record at position p (from 1).
LoadItem(item, p) ==
    LET a == IF Has(item, "food_id")
             THEN [item EXCEPT !["food_id"] = StrOf(item["food_id"])]
             ELSE ("food_id" :> IdStr(p)) @@ item
        b == SetDefault(a, "food_ingredients", <<>>)
        c == SetDefault(b, "food_description", "")
        d == SetDefault(c, "cuisine_type", "Unknown")
        e == SetDefault(d, "food_calories_per_serving", 0)
    IN ("taste_profile" :> TasteProfile(e)) @@ e

\* The content of the data file: a list of records, or anything else (no
\* file, no JSON, no list, an entry that is no mapping).
ListSource(records) == [kind |-> "list", records |-> records]
Malformed == [kind |-> "malformed", records |-> <<>>]

\* What the function returns: every exception ends in `return []`.
LoadReturn(src) ==
    IF src.kind # "list" THEN [raised |-> FALSE, value |-> <<>>]
    ELSE [raised |-> FALSE,
          value |-> [p \in 1..Len(src.records) |-> LoadItem(src.records[p], p)]]

\* The records of the data file: A (Italian, 200), B (Italian, 500),
\* C (Thai, 150) and further items, one of them with the values that are
\* the loader's defaults. Odd items have the optional detail fields.
ItemNames == <<"A", "B", "C", "D", "E", "F">>
ItemCuisines == <<"Italian", "Italian", "Thai", "Unknown", "Thai", "Italian">>
ItemCalories == <<200, 500, 150, 0, 300, 301>>

RawItem(i) ==
    LET base == [food_id |-> IntId(i),
                 food_name |-> ItemNames[i],
                 food_description |-> IF i % 2 = 1 THEN "described" ELSE "",
                 cuisine_type |-> ItemCuisines[i],
                 food_calories_per_serving |-> ItemCalories[i],
                 food_ingredients |-> IF i % 2 = 1 THEN <<"flour", "egg">> ELSE <<>>]
         detail == [food_features |-> <<"savory", "">>,
                    cooking_method |-> "boiled", food_health_benefits |-> "fibre"]
    IN IF i % 2 = 1 THEN base @@ detail ELSE base

\* The same items as load_food_data leaves them.
FoodItem(i) == LoadItem(RawItem(i), i)

RECURSIVE SortedSeq(_)
SortedSeq(S) ==
    IF S = {} THEN <<>>
    ELSE LET m == CHOOSE x \in S : \A y \in S : x <= y
         IN <<m>> \o SortedSeq(S \ {m})

\* A data file: some of the items, in their order, or a malformed file.
Sources ==
    {ListSource([k \in 1..Len(SortedSeq(S)) |-> RawItem(SortedSeq(S)[k])]) :
        S \in SUBSET (1..MaxCatalog)}
    \cup {Malformed}

\* The catalogs loaded from them.
Catalogs == {LoadReturn(src).value : src \in Sources}

Queries == {"pasta", ""}
CuisineFilters == {None, Some(""), Some("Italian"), Some("Thai")}
CalorieFilters == {None, Some(0), Some(300)}
NResults == {1, 3, 5}

----------------------------------------------------------------------------
(* shared_functions.py: populate_similarity_collection *)

\* The while loop that makes an id unique: base, base_1, base_2, ...
RECURSIVE NextUnique(_, _, _, _)
NextUnique(unique_id, base_id, counter, used_ids) ==
    IF unique_id \in used_ids
    THEN NextUnique(base_id \o <<counter>>, base_id, counter + 1, used_ids)
    ELSE unique_id

\* `if` in place of `while`: one suffix is tried, and taken.
UniqueIdOnce(base_id, used_ids) ==
    IF base_id \in used_ids THEN base_id \o <<1>> ELSE base_id

UniqueId(base_id, used_ids) == NextUnique(base_id, base_id, 1, used_ids)

\* The text that is embedded: one entry per sentence of the f-strings.
DocumentText(food) ==
    LET taste_profile == Get(food, "taste_profile", <<>>)
        health_benefits == Get(food, "food_health_benefits", "")
    IN <<  <<"Name", food["food_name"]>>,
           <<"Description", Get(food, "food_description", "")>>,
           <<"Ingredients", Join(Get(food, "food_ingredients", <<>>))>>,
           <<"Cuisine", Get(food, "cuisine_type", "Unknown")>>,
           <<"Cooking method", Get(food, "cooking_method", "")>> >>
       \o (IF taste_profile # <<>> THEN << <<"Taste and features", taste_profile>> >> ELSE <<>>)
       \o (IF health_benefits # "" THEN << <<"Health benefits", health_benefits>> >> ELSE <<>>)
       \o (IF Has(food, "food_nutritional_factors")
           THEN << <<"Nutrition", food["food_nutritional_factors"]>> >> ELSE <<>>)

Metadata(food) ==
    [name |-> food["food_name"],
     cuisine_type |-> Get(food, "cuisine_type", "Unknown"),
     ingredients |-> Join(Get(food, "food_ingredients", <<>>)),
     calories |-> Get(food, "food_calories_per_serving", 0),
     description |-> Get(food, "food_description", ""),
     cooking_method |-> Get(food, "cooking_method", ""),
     health_benefits |-> Get(food, "food_health_benefits", ""),
     taste_profile |-> Get(food, "taste_profile", <<>>)]

\* The for loop: the documents, in catalog order, each under a unique id.
RECURSIVE BuildDocuments(_, _, _, _)
BuildDocuments(food_items, i, used_ids, docs) ==
    IF i > Len(food_items) THEN docs
    ELSE LET food == food_items[i]
             base_id == Get(food, "food_id", IdStr(i - 1))
             unique_id == UniqueId(base_id, used_ids)
         IN BuildDocuments(food_items, i + 1, used_ids \cup {unique_id},
                Append(docs, [id |-> unique_id,
                              document |-> DocumentText(food),
                              metadata |-> Metadata(food)]))

\* collection.add(documents, metadatas, ids) of the index.  Documents whose
\* id the collection already holds are not added again; whether such a call,
\* or a call with no documents at all, is refused with an exception depends
\* on the version of the index (strict or not).
CollectionAdd(coll, docs, strict) ==
    LET held == {coll[p].id : p \in 1..Len(coll)}
        fresh == SelectSeq(docs, LAMBDA doc : doc.id \notin held)
    IN IF strict /\ (Len(docs) = 0 \/ Len(fresh) < Len(docs))
       THEN [raised |-> TRUE, collection |-> coll]
       ELSE [raised |-> FALSE, collection |-> coll \o fresh]

\* client.delete_collection followed by client.create_collection: whatever
\* was held under the name is gone.
CreateCollectionReturn(coll) == <<>>

\* used_ids outlives the call: the ids already in the collection count as used.
PopulateReturnSharedIds(coll, food_items, strict) ==
    IF \E i \in 1..Len(food_items) : ~Has(food_items[i], "food_name")
    THEN [raised |-> TRUE, collection |-> coll]
    ELSE CollectionAdd(coll,
            BuildDocuments(food_items, 1,
                           {coll[p].id : p \in 1..Len(coll)}, <<>>),
            strict)

\* What populate_similarity_collection does to the collection: food['food_name']
\* of a record without a name is a KeyError, raised in the loop before
\* anything is added; otherwise the documents are added in one call.
PopulateReturn(coll, food_items, strict) ==
    IF \E i \in 1..Len(food_items) : ~Has(food_items[i], "food_name")
    THEN [raised |-> TRUE, collection |-> coll]
    ELSE CollectionAdd(coll, BuildDocuments(food_items, 1, {}, <<>>), strict)

\* populate_similarity_collection(collection, food_items).
PopulateCollection(coll, food_items) ==
    /\ \E strict \in BOOLEAN :
         LET ret == PopulateReturn(coll, food_items, strict)
         IN /\ collection' = ret.collection
            /\ populate_raised' = ret.raised
    /\ populated' = TRUE
    /\ upserts' = upserts + 1

----------------------------------------------------------------------------
(* The vector index (collection.query): an opaque collaborator.  It honours  *)
(* the where clause, returns at most n_results documents, best match first, *)
(* and may raise.  Which documents are nearest, and at which distances, is  *)
(* decided by the embedding and is left open.                               *)

NoFilter == [none |-> TRUE]

RECURSIVE Matches(_, _)
Matches(metadata, where) ==
    IF Has(where, "none") THEN TRUE
    ELSE IF Has(where, "cuisine_type") THEN metadata.cuisine_type = where.cuisine_type
    ELSE IF Has(where, "calories") THEN metadata.calories <= where.calories.lte
    ELSE \A j \in 1..Len(where.and) : Matches(metadata, where.and[j])

MatchingIn(coll, where) ==
    {p \in 1..Len(coll) : Matches(coll[p].metadata, where)}

Matching(where) == MatchingIn(collection, where)

IndexAnswersIn(coll, n_results, where) ==
    LET M == MatchingIn(coll, where)
        L == Min(n_results, Cardinality(M))
        orders == {o \in [1..L -> M] : \A a, b \in 1..L : a # b => o[a] # o[b]}
        dists == {d \in [1..L -> 0..MaxDistance] :
                     \A a, b \in 1..L : a < b => d[a] <= d[b]}
    IN {[k \in 1..L |-> [id |-> coll[o[k]].id,
                         metadata |-> coll[o[k]].metadata,
                         distance |-> d[k]]] : o \in orders, d \in dists}

IndexAnswers(n_results, where) == IndexAnswersIn(collection, n_results, where)

----------------------------------------------------------------------------
(* No call in progress: the caller is at its prompt. *)

NoCall == [fn |-> "none", query |-> "", cuisine_filter |-> None,
           max_calories |-> None, n_results |-> 0]

\* A line (or sentence) of text built by an f-string: what it says (tag) and
\* the values substituted into it.
Line(tag, n, s, t, items) ==
    [tag |-> tag, n |-> n, s |-> s, t |-> t, items |-> items]

\* A string: either text built line by line, or a reply of the generation
\* backend, of which only the whitespace around it and its length matter.
Built(lines) == [lines |-> lines, lead |-> 0, core |-> 0, trail |-> 0]
Reply(lead, core, trail) ==
    [lines |-> <<>>, lead |-> lead, core |-> core, trail |-> trail]
EmptyText == Built(<<>>)

NoPrompt == [query |-> "", context |-> EmptyText]
IdleGateway == [kind |-> "idle", text |-> EmptyText]

SearchIdle ==
    /\ call = NoCall
    /\ where_clause = NoFilter
    /\ queries_issued = 0
    /\ raw_hits = <<>>
    /\ index_raised = FALSE
    /\ search_results = <<>>
    /\ search_raised = FALSE

GenIdle ==
    /\ gen_op = "none"
    /\ prompt = NoPrompt
    /\ gateway = IdleGateway
    /\ gateway_calls = 0
    /\ gen_output = EmptyText
    /\ gen_raised = FALSE

\* No session: nothing typed, no search issued, nothing shown, no history.
NoShown == [message |-> None, title |-> None]

SessIdle ==
    /\ inputs = <<>>
    /\ engine_calls = <<>>
    /\ shown = NoShown
    /\ conversation_history = <<>>
    /\ handled = <<>>

----------------------------------------------------------------------------
(* shared_functions.py: perform_similarity_search *)

\* A "repair" that keeps the score non-negative: |1 - distance|.
FormatResultAbs(hit) ==
    [food_id |-> hit.id,
     food_name |-> Get(hit.metadata, "name", "N/A"),
     food_description |-> Get(hit.metadata, "description", "N/A"),
     cuisine_type |-> Get(hit.metadata, "cuisine_type", "N/A"),
     food_calories_per_serving |-> Get(hit.metadata, "calories", 0),
     similarity_score |-> IF hit.distance > DistUnit
                          THEN hit.distance - DistUnit ELSE DistUnit - hit.distance,
     distance |-> hit.distance]

\* The body of the for loop: one raw hit to one result dictionary.
FormatResult(hit) ==
    [food_id |-> hit.id,
     food_name |-> Get(hit.metadata, "name", "N/A"),
     food_description |-> Get(hit.metadata, "description", "N/A"),
     cuisine_type |-> Get(hit.metadata, "cuisine_type", "N/A"),
     food_calories_per_serving |-> Get(hit.metadata, "calories", 0),
     similarity_score |-> DistUnit - hit.distance,
     distance |-> hit.distance]

FormatResults(hits) == [i \in 1..Len(hits) |-> FormatResult(hits[i])]

\* The function without its try/except: a failure of the index propagates.
SimilaritySearchReturnNoExcept(raised, hits) ==
    IF raised THEN [raised |-> TRUE, value |-> <<>>]
    ELSE IF Len(hits) = 0 THEN [raised |-> FALSE, value |-> <<>>]
    ELSE [raised |-> FALSE, value |-> FormatResults(hits)]

\* What the function does with the outcome of collection.query: the except
\* clause and the empty check return [], otherwise the formatted hits.
SimilaritySearchReturn(raised, hits) ==
    IF raised THEN [raised |-> FALSE, value |-> <<>>]
    ELSE IF Len(hits) = 0 THEN [raised |-> FALSE, value |-> <<>>]
    ELSE [raised |-> FALSE, value |-> FormatResults(hits)]

SimilaritySearch(query, n_results) ==
    /\ populated
    /\ SearchIdle
    /\ \E raised \in BOOLEAN :
         \E hits \in (IF raised THEN {<<>>} ELSE IndexAnswers(n_results, NoFilter)) :
            LET ret == SimilaritySearchReturn(raised, hits)
            IN /\ call' = [fn |-> "perform_similarity_search", query |-> query,
                           cuisine_filter |-> None, max_calories |-> None,
                           n_results |-> n_results]
               /\ where_clause' = NoFilter
               /\ queries_issued' = 1
               /\ raw_hits' = hits
               /\ index_raised' = raised
               /\ search_results' = ret.value
               /\ search_raised' = ret.raised
    /\ UNCHANGED <<loadVars, stage, indexVars, genVars, sessVars>>

----------------------------------------------------------------------------
(* shared_functions.py: perform_filtered_similarity_search *)

\* `if cuisine_filter:` -- None and the empty string are falsy.
Truthy(opt) == opt # None /\ opt[1] # ""

\* `if max_calories:` in place of `is not None`: a bound of 0 is dropped.
FiltersCaloriesTruthy(cuisine_filter, max_calories) ==
    (IF Truthy(cuisine_filter)
     THEN <<[cuisine_type |-> cuisine_filter[1]]>> ELSE <<>>)
    \o (IF max_calories # None /\ max_calories[1] # 0
        THEN <<[calories |-> [lte |-> max_calories[1]]]>> ELSE <<>>)

\* The filters list and the where clause made of it.
Filters(cuisine_filter, max_calories) ==
    (IF Truthy(cuisine_filter)
     THEN <<[cuisine_type |-> cuisine_filter[1]]>> ELSE <<>>)
    \o (IF max_calories # None
        THEN <<[calories |-> [lte |-> max_calories[1]]]>> ELSE <<>>)

\* `len(filters) >= 1` in the first test: only the first predicate is used.
WhereClauseFirstOnly(cuisine_filter, max_calories) ==
    LET filters == Filters(cuisine_filter, max_calories)
    IN IF Len(filters) >= 1 THEN filters[1]
       ELSE NoFilter

WhereClause(cuisine_filter, max_calories) ==
    LET filters == Filters(cuisine_filter, max_calories)
    IN IF Len(filters) = 1 THEN filters[1]
       ELSE IF Len(filters) > 1 THEN [and |-> filters]
       ELSE NoFilter

\* The second copy of the formatting loop.
FilteredFormatResult(hit) ==
    [food_id |-> hit.id,
     food_name |-> Get(hit.metadata, "name", "N/A"),
     food_description |-> Get(hit.metadata, "description", "N/A"),
     cuisine_type |-> Get(hit.metadata, "cuisine_type", "N/A"),
     food_calories_per_serving |-> Get(hit.metadata, "calories", 0),
     similarity_score |-> DistUnit - hit.distance,
     distance |-> hit.distance]

\* A slip in the loop bounds: the hits are collected back to front.
FilteredFormatResultsReversed(hits) ==
    [i \in 1..Len(hits) |-> FilteredFormatResult(hits[Len(hits) + 1 - i])]

FilteredFormatResults(hits) ==
    [i \in 1..Len(hits) |-> FilteredFormatResult(hits[i])]

FilteredSearchReturn(raised, hits) ==
    IF raised THEN [raised |-> FALSE, value |-> <<>>]
    ELSE IF Len(hits) = 0 THEN [raised |-> FALSE, value |-> <<>>]
    ELSE [raised |-> FALSE, value |-> FilteredFormatResults(hits)]

FilteredSimilaritySearch(query, cuisine_filter, max_calories, n_results) ==
    /\ populated
    /\ SearchIdle
    /\ LET where == WhereClause(cuisine_filter, max_calories)
       IN \E raised \in BOOLEAN :
            \E hits \in (IF raised THEN {<<>>} ELSE IndexAnswers(n_results, where)) :
               LET ret == FilteredSearchReturn(raised, hits)
               IN /\ call' = [fn |-> "perform_filtered_similarity_search",
                              query |-> query, cuisine_filter |-> cuisine_filter,
                              max_calories |-> max_calories, n_results |-> n_results]
                  /\ where_clause' = where
                  /\ queries_issued' = 1
                  /\ raw_hits' = hits
                  /\ index_raised' = raised
                  /\ search_results' = ret.value
                  /\ search_raised' = ret.raised
    /\ UNCHANGED <<loadVars, stage, indexVars, genVars, sessVars>>

----------------------------------------------------------------------------
(* The callers (handle_food_search, display_search_results): the returned   *)
(* list is printed and the session goes back to its prompt.                *)

DisplayResults ==
    /\ call # NoCall
    /\ call' = NoCall
    /\ where_clause' = NoFilter
    /\ queries_issued' = 0
    /\ raw_hits' = <<>>
    /\ index_raised' = FALSE
    /\ search_results' = <<>>
    /\ search_raised' = FALSE
    /\ UNCHANGED <<loadVars, stage, indexVars, genVars, sessVars>>

----------------------------------------------------------------------------
(* load_food_data(file_path) as a step of its caller *)

LoadFoodData(src) ==
    LET ret == LoadReturn(src)
    IN /\ source' = src
       /\ food_data' = ret.value
       /\ load_raised' = ret.raised
       /\ UNCHANGED <<indexVars, searchVars, genVars, sessVars>>

----------------------------------------------------------------------------
(* The retrieval engine as a state machine *)

NoInputs ==
    /\ gen_query = ""
    /\ gen_results = <<>>
    /\ gen_query2 = ""
    /\ gen_results2 = <<>>

Init ==
    /\ source = Malformed
    /\ food_data = <<>>
    /\ load_raised = FALSE
    /\ stage = "start"
    /\ collection = <<>>
    /\ populated = FALSE
    /\ populate_raised = FALSE
    /\ upserts = 0
    /\ SearchIdle
    /\ NoInputs
    /\ GenIdle
    /\ SessIdle

\* main(): load_food_data, then `if not food_items: sys.exit(1)`.
MainLoad ==
    /\ stage = "start"
    /\ \E src \in Sources : LoadFoodData(src)
    /\ stage' = IF food_data' = <<>> THEN "exited" ELSE "loaded"

\* main(): create the collection and populate it; an exception of either
\* ends in the handler of main, which exits.
DoPopulate ==
    /\ stage = "loaded"
    /\ PopulateCollection(CreateCollectionReturn(collection), food_data)
    /\ stage' = IF populate_raised' THEN "exited" ELSE "ready"
    /\ UNCHANGED <<loadVars, searchVars, genVars, sessVars>>

DoSimilaritySearch ==
    /\ stage = "ready"
    /\ \E query \in Queries, n_results \in NResults :
         SimilaritySearch(query, n_results)

DoFilteredSimilaritySearch ==
    /\ stage = "ready"
    /\ \E query \in Queries, cuisine_filter \in CuisineFilters,
          max_calories \in CalorieFilters, n_results \in NResults :
         FilteredSimilaritySearch(query, cuisine_filter, max_calories, n_results)

Next ==
    \/ MainLoad
    \/ DoPopulate
    \/ DoSimilaritySearch
    \/ DoFilteredSimilaritySearch
    \/ DisplayResults

Spec == Init /\ [][Next]_vars

----------------------------------------------------------------------------
(* Properties of the retrieval engine (checked under Spec) *)

Filtered == call.fn = "perform_filtered_similarity_search"
Searched == call.fn # "none"
CuisineSet == call.cuisine_filter # None /\ call.cuisine_filter[1] # ""
CaloriesSet == call.max_calories # None
CuisinePredicate == [cuisine_type |-> call.cuisine_filter[1]]
CaloriesPredicate == [calories |-> [lte |-> call.max_calories[1]]]

\* C1: in perform_filtered_similarity_search, for a cuisine filter that is
\* None or a non-empty string and a calorie bound that is None or an integer
\* >= 0, the filter handed to the index is no predicate when both are None,
\* the cuisine-equality predicate alone when only the cuisine is set, the
\* calories upper bound alone when only the bound is set, and the AND of
\* exactly those two, cuisine first, when both are set.
C1_FilterComposition ==
    (Filtered /\ call.cuisine_filter # Some("")) =>
        /\ (~CuisineSet /\ ~CaloriesSet) => where_clause = NoFilter
        /\ (CuisineSet /\ ~CaloriesSet) => where_clause = CuisinePredicate
        /\ (~CuisineSet /\ CaloriesSet) => where_clause = CaloriesPredicate
        /\ (CuisineSet /\ CaloriesSet) =>
               where_clause = [and |-> <<CuisinePredicate, CaloriesPredicate>>]

\* A filtered search with a bound of 0 alone, and one with both filters.
C1_Witness ==
    /\ Filtered
    /\ call.cuisine_filter = Some("Thai")
    /\ call.max_calories = Some(0)
    /\ where_clause = [and |-> <<[cuisine_type |-> "Thai"],
                                 [calories |-> [lte |-> 0]]>>]

\* The index holds exactly the items A, B and C.
ScenarioABC ==
    /\ Len(collection) = 3
    /\ \A p \in 1..3 : collection[p].metadata.name = ItemNames[p]

\* C2: with an index that honours its filter, every result of a filtered
\* search has the cuisine of the cuisine filter (when set) and calories at
\* most max_calories (when set); over the items A (Italian, 200),
\* B (Italian, 500), C (Thai, 150), cuisine "Italian" with at most 300
\* calories returns exactly [A].
C2_ResultsSatisfyFilter ==
    Filtered =>
        /\ \A i \in 1..Len(search_results) :
              /\ CuisineSet =>
                    search_results[i].cuisine_type = call.cuisine_filter[1]
              /\ CaloriesSet =>
                    search_results[i].food_calories_per_serving
                        <= call.max_calories[1]
        /\ (/\ ScenarioABC
            /\ ~index_raised
            /\ call.cuisine_filter = Some("Italian")
            /\ call.max_calories = Some(300)) =>
               /\ Len(search_results) = 1
               /\ search_results[1].food_name = "A"

\* The scenario has run and returned A.
C2_Witness ==
    /\ Filtered
    /\ ScenarioABC
    /\ call.cuisine_filter = Some("Italian")
    /\ call.max_calories = Some(300)
    /\ Len(search_results) = 1
    /\ search_results[1].food_name = "A"

\* C3: for every raw hit at distance d in [0,2], the result built from it by
\* either search has distance d and similarity_score 1 - d.
C3_ScoreIsOneMinusDistance ==
    Searched =>
        \A i \in 1..Len(raw_hits) :
            /\ i <= Len(search_results)
            /\ search_results[i].distance = raw_hits[i].distance
            /\ search_results[i].similarity_score
                   = DistUnit - raw_hits[i].distance

\* A search has returned hits at distance 0, scored 1, and at distance 2,
\* scored -1.
C3_Witness ==
    /\ ~Filtered
    /\ Len(search_results) >= 2
    /\ search_results[1].distance = 0
    /\ search_results[1].similarity_score = DistUnit
    /\ search_results[Len(search_results)].distance = MaxDistance
    /\ search_results[Len(search_results)].similarity_score = -DistUnit

\* C4: every result of a search has a similarity_score within [0,1], for
\* every distance in [0,2] the index can return.
C4_ScoreInUnitInterval ==
    \A i \in 1..Len(search_results) :
        /\ search_results[i].similarity_score >= 0
        /\ search_results[i].similarity_score <= DistUnit

\* C5: a search returns as many results as the index returned hits, the i-th
\* result carrying the id, the metadata fields and the distance of the i-th
\* hit: nothing is re-sorted, dropped, duplicated or padded, so a k above
\* the number of matching documents yields only those.
C5_OrderAndCardinality ==
    Searched =>
        /\ Len(search_results) = Len(raw_hits)
        /\ Len(search_results) <= Cardinality(Matching(where_clause))
        /\ Len(search_results) <= call.n_results
        /\ \A i \in 1..Len(raw_hits) :
              /\ search_results[i].food_id = raw_hits[i].id
              /\ search_results[i].food_name = raw_hits[i].metadata.name
              /\ search_results[i].food_description
                     = raw_hits[i].metadata.description
              /\ search_results[i].cuisine_type
                     = raw_hits[i].metadata.cuisine_type
              /\ search_results[i].food_calories_per_serving
                     = raw_hits[i].metadata.calories
              /\ search_results[i].distance = raw_hits[i].distance

\* A filtered search with k = 5 over fewer matching documents, returned in
\* an order that is not the catalog's.
C5_Witness ==
    /\ Filtered
    /\ call.n_results = 5
    /\ Len(search_results) = 3
    /\ Len(collection) = 4
    /\ search_results[1].food_name = "C"
    /\ search_results[2].food_name = "A"
    /\ search_results[1].distance < search_results[3].distance

\* C6: when the index call fails, the search raises nothing and returns the
\* empty sequence, the value it also returns when the index finds nothing.
C6_FailureReturnsEmpty ==
    Searched =>
        /\ ~search_raised
        /\ index_raised => search_results = <<>>
        /\ (~index_raised /\ raw_hits = <<>>) => search_results = <<>>

\* The index raised although documents match, and the search returned [].
C6_Witness ==
    /\ ~Filtered
    /\ Searched
    /\ index_raised
    /\ Len(collection) > 0
    /\ search_results = <<>>
    /\ ~search_raised

----------------------------------------------------------------------------
(* enhanced_rag_chatbot.py: prepare_context_for_llm *)

ContextLimit == 3       \* search_results[:3]
IngredientLimit == 5    \* ingredients[:5]
MinResponseLen == 50    \* len(response_text) < 50

Take(seq, n) == SubSeq(seq, 1, Min(n, Len(seq)))

\* f"{similarity_score*100:.1f}%": tenths of a percent.
Percent(similarity_score) == (similarity_score * 1000) \div DistUnit

\* result.get(key) is truthy: the key is there and its value is not empty.
TruthyField(result, key, empty) == Has(result, key) /\ result[key] # empty

\* The lines of one option block.
FoodContext(i, result) ==
    <<Line("Option", i, result["food_name"], "", <<>>),
      Line("Description", 0, result["food_description"], "", <<>>),
      Line("Cuisine", 0, result["cuisine_type"], "", <<>>),
      Line("Calories", result["food_calories_per_serving"], "per serving", "", <<>>)>>
    \o (IF TruthyField(result, "food_ingredients", <<>>)
        THEN <<Line("Key ingredients", 0, "", "",
                    Join(Take(result["food_ingredients"], IngredientLimit)))>>
        ELSE <<>>)
    \o (IF TruthyField(result, "food_health_benefits", "")
        THEN <<Line("Health benefits", 0, result["food_health_benefits"], "", <<>>)>>
        ELSE <<>>)
    \o (IF TruthyField(result, "cooking_method", "")
        THEN <<Line("Cooking method", 0, result["cooking_method"], "", <<>>)>>
        ELSE <<>>)
    \o (IF TruthyField(result, "taste_profile", <<>>)
        THEN <<Line("Taste profile", 0, "", "", result["taste_profile"])>>
        ELSE <<>>)
    \o <<Line("Similarity score", Percent(result["similarity_score"]), "%", "", <<>>),
         Line("", 0, "", "", <<>>)>>

RECURSIVE ContextParts(_, _)
ContextParts(results, i) ==
    IF i > Len(results) THEN <<>>
    ELSE FoodContext(i, results[i]) \o ContextParts(results, i + 1)

\* The loop without its [:3]: every result gets a block.
PrepareContextUnlimited(query, results) ==
    IF Len(results) = 0
    THEN Built(<<Line("No relevant food items found in the database.",
                      0, "", "", <<>>)>>)
    ELSE Built(<<Line("Based on the user's query, here are the most relevant food options from our database:",
                      0, "", "", <<>>),
                 Line("", 0, "", "", <<>>)>>
               \o ContextParts(results, 1))

\* No sentinel: an empty list of results gives the empty string.
PrepareContextEmptyString(query, results) ==
    IF Len(results) = 0
    THEN EmptyText
    ELSE Built(<<Line("Based on the user's query, here are the most relevant food options from our database:",
                      0, "", "", <<>>),
                 Line("", 0, "", "", <<>>)>>
               \o ContextParts(Take(results, ContextLimit), 1))

PrepareContext(query, results) ==
    IF Len(results) = 0
    THEN Built(<<Line("No relevant food items found in the database.",
                      0, "", "", <<>>)>>)
    ELSE Built(<<Line("Based on the user's query, here are the most relevant food options from our database:",
                      0, "", "", <<>>),
                 Line("", 0, "", "", <<>>)>>
               \o ContextParts(Take(results, ContextLimit), 1))

----------------------------------------------------------------------------
(* enhanced_rag_chatbot.py: generate_fallback_response *)

\* `if len(search_results) > 2` and the wrong index: the alternative is the
\* third result.
FallbackResponseThird(query, results) ==
    IF Len(results) = 0
    THEN Built(<<Line("I couldn't find any food items matching your request. Try describing what you're in the mood for with different words!",
                      0, "", "", <<>>)>>)
    ELSE LET top_result == results[1]
         IN Built(
              <<Line("Based on your request for, I'd recommend", 0,
                     top_result["food_name"], query, <<>>),
                Line("It's a dish with calories per serving",
                     top_result["food_calories_per_serving"],
                     top_result["cuisine_type"], "", <<>>)>>
              \o (IF Len(results) > 2
                  THEN <<Line("Another great option would be", 0,
                              results[3]["food_name"], "", <<>>)>>
                  ELSE <<>>))

FallbackResponse(query, results) ==
    IF Len(results) = 0
    THEN Built(<<Line("I couldn't find any food items matching your request. Try describing what you're in the mood for with different words!",
                      0, "", "", <<>>)>>)
    ELSE LET top_result == results[1]
         IN Built(
              <<Line("Based on your request for, I'd recommend", 0,
                     top_result["food_name"], query, <<>>),
                Line("It's a dish with calories per serving",
                     top_result["food_calories_per_serving"],
                     top_result["cuisine_type"], "", <<>>)>>
              \o (IF Len(results) > 1
                  THEN <<Line("Another great option would be", 0,
                              results[2]["food_name"], "", <<>>)>>
                  ELSE <<>>))

----------------------------------------------------------------------------
(* enhanced_rag_chatbot.py: generate_llm_rag_response *)

\* str.strip() and len() of a reply.
Strip(text) == Reply(0, text.core, 0)
TextLen(text) == text.lead + text.core + text.trail

\* What the gateway can do: raise, return no content (None), or return a
\* text; the lengths lie around the threshold, and 0 is the empty reply.
ReplyLengths == {0} \cup ((MinResponseLen - MaxPad - 1)..(MinResponseLen + 1))

GatewayOutcomes ==
    {[kind |-> "raised", text |-> EmptyText],
     [kind |-> "none", text |-> EmptyText]}
    \cup {[kind |-> "text", text |-> Reply(lead, core, trail)] :
             lead \in 0..MaxPad, core \in ReplyLengths, trail \in 0..MaxPad}

\* The except clause re-raises instead of falling back.
RagResponseReturnReraise(query, results, gw) ==
    IF gw.kind # "text"
    THEN [raised |-> TRUE, value |-> EmptyText, calls |-> 1]
    ELSE LET response_text == Strip(gw.text)
         IN IF TextLen(response_text) < MinResponseLen
            THEN [raised |-> FALSE, value |-> FallbackResponse(query, results),
                  calls |-> 1]
            ELSE [raised |-> FALSE, value |-> response_text, calls |-> 1]

\* `<=` in the length test.
RagResponseReturnLe(query, results, gw) ==
    IF gw.kind # "text"
    THEN [raised |-> FALSE, value |-> FallbackResponse(query, results),
                  calls |-> 1]
    ELSE LET response_text == Strip(gw.text)
         IN IF TextLen(response_text) <= MinResponseLen
            THEN [raised |-> FALSE, value |-> FallbackResponse(query, results),
                  calls |-> 1]
            ELSE [raised |-> FALSE, value |-> response_text, calls |-> 1]

\* A retry: after a raise the gateway is called once more (and raises again).
RagResponseReturnRetry(query, results, gw) ==
    IF gw.kind = "raised"
    THEN [raised |-> FALSE, value |-> FallbackResponse(query, results),
                  calls |-> 2]
    ELSE IF gw.kind # "text"
    THEN [raised |-> FALSE, value |-> FallbackResponse(query, results),
                  calls |-> 1]
    ELSE LET response_text == Strip(gw.text)
         IN IF TextLen(response_text) < MinResponseLen
            THEN [raised |-> FALSE, value |-> FallbackResponse(query, results),
                  calls |-> 1]
            ELSE [raised |-> FALSE, value |-> response_text, calls |-> 1]

\* What the function returns for an outcome of the gateway call: a raise,
\* and the AttributeError of None.strip(), end in the except clause;
\* calls counts the invocations of the gateway.
RagResponseReturn(query, results, gw) ==
    IF gw.kind # "text"
    THEN [raised |-> FALSE, value |-> FallbackResponse(query, results),
                  calls |-> 1]
    ELSE LET response_text == Strip(gw.text)
         IN IF TextLen(response_text) < MinResponseLen
            THEN [raised |-> FALSE, value |-> FallbackResponse(query, results),
                  calls |-> 1]
            ELSE [raised |-> FALSE, value |-> response_text, calls |-> 1]

----------------------------------------------------------------------------
(* The context builder and the generation step as functions of their inputs *)

PrepareContextForLlm ==
    /\ stage = "chat"
    /\ gen_op = "none"
    /\ gen_op' = "prepare_context_for_llm"
    /\ gen_output' = PrepareContext(gen_query, gen_results)
    /\ gen_raised' = FALSE
    /\ UNCHANGED <<loadVars, stage, indexVars, searchVars, genInputs,
                   prompt, gateway, gateway_calls, sessVars>>

GenerateFallbackResponse ==
    /\ stage = "chat"
    /\ gen_op = "none"
    /\ gen_op' = "generate_fallback_response"
    /\ gen_output' = FallbackResponse(gen_query, gen_results)
    /\ gen_raised' = FALSE
    /\ UNCHANGED <<loadVars, stage, indexVars, searchVars, genInputs,
                   prompt, gateway, gateway_calls, sessVars>>

GenerateLlmRagResponse ==
    /\ stage = "chat"
    /\ gen_op = "none"
    /\ \E gw \in GatewayOutcomes :
         LET ret == RagResponseReturn(gen_query, gen_results, gw)
         IN /\ gen_op' = "generate_llm_rag_response"
            /\ prompt' = [query |-> gen_query,
                          context |-> PrepareContext(gen_query, gen_results)]
            /\ gateway' = gw
            /\ gateway_calls' = ret.calls
            /\ gen_output' = ret.value
            /\ gen_raised' = ret.raised
    /\ UNCHANGED <<loadVars, stage, indexVars, searchVars, genInputs, sessVars>>

\* The documents of the whole catalog, and every list of results a search
\* over them can return.
FullCollection ==
    BuildDocuments([k \in 1..MaxCatalog |-> FoodItem(k)], 1, {}, <<>>)

ResultLists ==
    UNION {{FormatResults(hits) : hits \in IndexAnswersIn(FullCollection, n, NoFilter)} :
              n \in 0..MaxCatalog}

\* Start-up is over: the whole catalog is loaded and indexed, and the chatbot
\* holds the results of its searches.
Ready ==
    /\ source = ListSource([k \in 1..MaxCatalog |-> RawItem(k)])
    /\ food_data = [k \in 1..MaxCatalog |-> FoodItem(k)]
    /\ load_raised = FALSE
    /\ stage = "chat"
    /\ collection = FullCollection
    /\ populated = TRUE
    /\ populate_raised = FALSE
    /\ upserts = 1

GenInit ==
    /\ Ready
    /\ SearchIdle
    /\ gen_query \in Queries
    /\ gen_results \in ResultLists
    /\ gen_query2 = ""
    /\ gen_results2 = <<>>
    /\ GenIdle
    /\ SessIdle

GenNext ==
    \/ PrepareContextForLlm
    \/ GenerateFallbackResponse
    \/ GenerateLlmRagResponse

GenSpec == GenInit /\ [][GenNext]_vars

----------------------------------------------------------------------------
(* Properties of the context builder and the generation step (GenSpec) *)

Generated == gen_op = "generate_llm_rag_response"
FellBack == gen_op = "generate_fallback_response"
Prepared == gen_op = "prepare_context_for_llm"

NoMatchMessage ==
    Built(<<Line("I couldn't find any food items matching your request. Try describing what you're in the mood for with different words!",
                 0, "", "", <<>>)>>)

\* The names an output text mentions.
NamesIn(text) ==
    {text.lines[j].s : j \in {k \in 1..Len(text.lines) :
                                 text.lines[k].tag \in
                                    {"Based on your request for, I'd recommend",
                                     "Another great option would be",
                                     "Option"}}}

\* C7: for every query and every list of results, the empty one included,
\* when the generation gateway raises, generate_llm_rag_response raises
\* nothing and returns exactly what generate_fallback_response returns for
\* the same query and results.
C7_GatewayRaiseFallsBack ==
    (Generated /\ gateway.kind = "raised") =>
        /\ ~gen_raised
        /\ gen_output = FallbackResponse(gen_query, gen_results)
        /\ gen_results = <<>> => gen_output = NoMatchMessage
        /\ gen_results # <<>> => gen_results[1].food_name \in NamesIn(gen_output)

\* The gateway raised with results at hand, and the fallback names the top one.
C7_Witness ==
    /\ Generated
    /\ gateway.kind = "raised"
    /\ Len(gen_results) >= 2
    /\ ~gen_raised
    /\ gen_results[1].food_name \in NamesIn(gen_output)

\* C8 as stated: a gateway text shorter than 50 characters is replaced by
\* the fallback summary, and a text of exactly 50 characters is returned,
\* not replaced.
C8_ThresholdOnReturnedText ==
    (Generated /\ gateway.kind = "text") =>
        /\ TextLen(gateway.text) < MinResponseLen =>
               gen_output = FallbackResponse(gen_query, gen_results)
        /\ TextLen(gateway.text) = MinResponseLen =>
               gen_output # FallbackResponse(gen_query, gen_results)

\* C8 (amended): the threshold applies to the gateway text with its leading
\* and trailing whitespace removed: stripped text shorter than 50 characters
\* (so also every text shorter than 50) is replaced by the fallback summary;
\* stripped text of 50 characters or more is returned, stripped.
C8_ThresholdOnStrippedText ==
    (Generated /\ gateway.kind = "text") =>
        /\ ~gen_raised
        /\ gateway.text.core < MinResponseLen =>
               gen_output = FallbackResponse(gen_query, gen_results)
        /\ TextLen(gateway.text) < MinResponseLen =>
               gen_output = FallbackResponse(gen_query, gen_results)
        /\ gateway.text.core >= MinResponseLen =>
               gen_output = Reply(0, gateway.text.core, 0)

\* A padded reply whose stripped length is exactly 50 was returned.
C8_Witness ==
    /\ Generated
    /\ gateway.kind = "text"
    /\ gateway.text.lead = 1
    /\ gateway.text.core = MinResponseLen
    /\ gen_output = Reply(0, MinResponseLen, 0)

\* C9: generate_fallback_response never calls the gateway; for no results
\* it returns the no-match message; otherwise its text is fixed by the
\* inputs: it names the first result with its cuisine and calories, names the
\* second as the alternative exactly when there are two or more results,
\* and names no result at index 2 or later.
C9_FallbackNamesTopTwo ==
    FellBack =>
        /\ gateway_calls = 0
        /\ ~gen_raised
        /\ gen_results = <<>> => gen_output = NoMatchMessage
        /\ gen_results # <<>> =>
              /\ gen_output # NoMatchMessage
              /\ Len(gen_output.lines) = IF Len(gen_results) >= 2 THEN 3 ELSE 2
              /\ gen_output.lines[1] =
                    Line("Based on your request for, I'd recommend", 0,
                         gen_results[1].food_name, gen_query, <<>>)
              /\ gen_output.lines[2] =
                    Line("It's a dish with calories per serving",
                         gen_results[1].food_calories_per_serving,
                         gen_results[1].cuisine_type, "", <<>>)
              /\ Len(gen_results) >= 2 =>
                    gen_output.lines[3] =
                        Line("Another great option would be", 0,
                             gen_results[2].food_name, "", <<>>)
              /\ \A i \in 3..Len(gen_results) :
                    gen_results[i].food_name \notin
                        {gen_results[1].food_name, gen_results[2].food_name}
                    => gen_results[i].food_name \notin NamesIn(gen_output)

\* The fallback over three or more results named the first two.
C9_Witness ==
    /\ FellBack
    /\ Len(gen_results) >= 3
    /\ NamesIn(gen_output) = {gen_results[1].food_name, gen_results[2].food_name}

OptionLines == SelectSeq(gen_output.lines, LAMBDA l : l.tag = "Option")

\* The position of the j-th option line in the context.
RECURSIVE OptionPosition(_, _)
OptionPosition(j, from) ==
    IF gen_output.lines[from].tag = "Option" /\ gen_output.lines[from].n = j
    THEN from ELSE OptionPosition(j, from + 1)

\* C10: for a non-empty list of results, prepare_context_for_llm renders
\* exactly min(3, len(results)) option blocks, block i (from 1) describing
\* results[i-1] and the blocks following each other in ranked order; no
\* result at index 3 or later appears.
C10_ContextBlocks ==
    (Prepared /\ gen_results # <<>>) =>
        /\ Len(OptionLines) = Min(ContextLimit, Len(gen_results))
        /\ \A j \in 1..Len(OptionLines) :
              /\ OptionLines[j].n = j
              /\ LET at == OptionPosition(j, 1)
                     r == gen_results[j]
                 IN /\ gen_output.lines[at].s = r.food_name
                    /\ gen_output.lines[at + 1] =
                          Line("Description", 0, r.food_description, "", <<>>)
                    /\ gen_output.lines[at + 2] =
                          Line("Cuisine", 0, r.cuisine_type, "", <<>>)
                    /\ gen_output.lines[at + 3] =
                          Line("Calories", r.food_calories_per_serving,
                               "per serving", "", <<>>)
                    /\ gen_output.lines[at + 4] =
                          Line("Similarity score", Percent(r.similarity_score),
                               "%", "", <<>>)
                    /\ j > 1 => OptionPosition(j - 1, 1) < at
        /\ \A i \in (ContextLimit + 1)..Len(gen_results) :
              (\A j \in 1..ContextLimit :
                  gen_results[i].food_name # gen_results[j].food_name)
              => gen_results[i].food_name \notin NamesIn(gen_output)

\* A context over more than three results holds the first three.
C10_Witness ==
    /\ Prepared
    /\ Len(gen_results) > ContextLimit
    /\ Len(OptionLines) = ContextLimit
    /\ OptionLines[ContextLimit].s = gen_results[ContextLimit].food_name

NoContextSentinel ==
    Built(<<Line("No relevant food items found in the database.",
                 0, "", "", <<>>)>>)

\* C11: prepare_context_for_llm never returns the empty string; for an
\* empty list of results it returns one fixed sentinel, whatever the query,
\* and it returns that sentinel for no non-empty list of results.
C11_SentinelForEmptyResults ==
    Prepared =>
        /\ gen_output # EmptyText
        /\ gen_output.lines # <<>>
        /\ gen_results = <<>> => gen_output = NoContextSentinel
        /\ gen_results # <<>> => gen_output # NoContextSentinel

\* The context of no results for the query "pasta" is the sentinel.
C11_Witness ==
    /\ Prepared
    /\ gen_query = "pasta"
    /\ gen_results = <<>>
    /\ gen_output = NoContextSentinel

----------------------------------------------------------------------------
(* enhanced_rag_chatbot.py: generate_simple_comparison, generate_llm_comparison *)

\* The one-sided sentences with their queries exchanged.
SimpleComparisonSwapped(query1, query2, results1, results2) ==
    IF Len(results1) = 0 /\ Len(results2) = 0
    THEN Built(<<Line("No results found for either query.", 0, "", "", <<>>)>>)
    ELSE IF Len(results1) = 0
    THEN Built(<<Line("Found results for, but none for", 0,
                      query1, query2, <<>>)>>)
    ELSE IF Len(results2) = 0
    THEN Built(<<Line("Found results for, but none for", 0,
                      query2, query1, <<>>)>>)
    ELSE LET rec1 == results1[1]["food_name"]
             rec2 == results2[1]["food_name"]
         IN Built(<<Line("For, I recommend", 0, rec1, query1, <<>>),
                    Line("For, would be perfect", 0, rec2, query2, <<>>)>>)

\* In a line "Found results for, but none for", s is the query that has
\* results and t the one that has none; in the other lines s is the food
\* and t the query.
SimpleComparison(query1, query2, results1, results2) ==
    IF Len(results1) = 0 /\ Len(results2) = 0
    THEN Built(<<Line("No results found for either query.", 0, "", "", <<>>)>>)
    ELSE IF Len(results1) = 0
    THEN Built(<<Line("Found results for, but none for", 0,
                      query2, query1, <<>>)>>)
    ELSE IF Len(results2) = 0
    THEN Built(<<Line("Found results for, but none for", 0,
                      query1, query2, <<>>)>>)
    ELSE LET rec1 == results1[1]["food_name"]
             rec2 == results2[1]["food_name"]
         IN Built(<<Line("For, I recommend", 0, rec1, query1, <<>>),
                    Line("For, would be perfect", 0, rec2, query2, <<>>)>>)

\* What generate_llm_comparison returns for an outcome of its gateway call:
\* a raise, and the AttributeError of None.strip(), end in the except clause;
\* a text is returned stripped, whatever its length.
ComparisonReturn(query1, query2, results1, results2, gw) ==
    IF gw.kind # "text"
    THEN [raised |-> FALSE,
          value |-> SimpleComparison(query1, query2, results1, results2),
          calls |-> 1]
    ELSE [raised |-> FALSE, value |-> Strip(gw.text), calls |-> 1]

GenerateSimpleComparison ==
    /\ stage = "chat"
    /\ gen_op = "none"
    /\ gen_op' = "generate_simple_comparison"
    /\ gen_output' = SimpleComparison(gen_query, gen_query2,
                                      gen_results, gen_results2)
    /\ gen_raised' = FALSE
    /\ UNCHANGED <<loadVars, stage, indexVars, searchVars, genInputs,
                   prompt, gateway, gateway_calls, sessVars>>

\* The prompt holds both queries and both contexts; the variable keeps the
\* first of each.
GenerateLlmComparison ==
    /\ stage = "chat"
    /\ gen_op = "none"
    /\ \E gw \in GatewayOutcomes :
         LET ret == ComparisonReturn(gen_query, gen_query2,
                                     gen_results, gen_results2, gw)
         IN /\ gen_op' = "generate_llm_comparison"
            /\ prompt' = [query |-> gen_query,
                          context |-> PrepareContext(gen_query,
                                          Take(gen_results, ContextLimit))]
            /\ gateway' = gw
            /\ gateway_calls' = ret.calls
            /\ gen_output' = ret.value
            /\ gen_raised' = ret.raised
    /\ UNCHANGED <<loadVars, stage, indexVars, searchVars, genInputs, sessVars>>

\* handle_enhanced_comparison_mode: two non-empty queries, and for each the
\* results of a search with n_results = 3.  The results are every list of at
\* most three of the first three documents, in any order, the distance
\* growing with the rank.
ComparisonResults == 3

CmpQueries == {"pasta", "soup"}

CmpResultLists ==
    UNION {{FormatResults(hits) :
               hits \in {h \in IndexAnswersIn(SubSeq(FullCollection, 1, ComparisonResults),
                                              n, NoFilter) :
                            \A k \in 1..Len(h) :
                                h[k].distance = Min(k - 1, MaxDistance)}} :
              n \in 0..ComparisonResults}

CmpInit ==
    /\ Ready
    /\ SearchIdle
    /\ gen_query \in CmpQueries
    /\ gen_query2 \in CmpQueries \ {gen_query}
    /\ gen_results \in CmpResultLists
    /\ gen_results2 \in CmpResultLists
    /\ GenIdle
    /\ SessIdle

CmpNext ==
    \/ GenerateSimpleComparison
    \/ GenerateLlmComparison

CmpSpec == CmpInit /\ [][CmpNext]_vars

----------------------------------------------------------------------------
(* Properties of the comparison (CmpSpec) *)

Compared == gen_op = "generate_llm_comparison"
ComparedSimply == gen_op = "generate_simple_comparison"

\* C12: when the gateway call of generate_llm_comparison raises, the
\* function returns the deterministic comparison: "no results for either
\* query" when both result lists are empty; when exactly one is empty, the
\* sentence that names the query of the empty list as the one without
\* results and the other as the one with results; otherwise two sentences,
\* the first naming results1[0] for query1, the second results2[0] for
\* query2, and no other food.
C12_FailureGivesSimpleComparison ==
    (Compared /\ gateway.kind = "raised") =>
        /\ ~gen_raised
        /\ (Len(gen_results) = 0 /\ Len(gen_results2) = 0) =>
              gen_output =
                  Built(<<Line("No results found for either query.",
                               0, "", "", <<>>)>>)
        /\ (Len(gen_results) = 0 /\ Len(gen_results2) > 0) =>
              /\ Len(gen_output.lines) = 1
              /\ gen_output.lines[1].tag = "Found results for, but none for"
              /\ gen_output.lines[1].s = gen_query2
              /\ gen_output.lines[1].t = gen_query
        /\ (Len(gen_results) > 0 /\ Len(gen_results2) = 0) =>
              /\ Len(gen_output.lines) = 1
              /\ gen_output.lines[1].tag = "Found results for, but none for"
              /\ gen_output.lines[1].s = gen_query
              /\ gen_output.lines[1].t = gen_query2
        /\ (Len(gen_results) > 0 /\ Len(gen_results2) > 0) =>
              /\ Len(gen_output.lines) = 2
              /\ gen_output.lines[1].tag = "For, I recommend"
              /\ gen_output.lines[1].s = gen_results[1]["food_name"]
              /\ gen_output.lines[1].t = gen_query
              /\ gen_output.lines[2].tag = "For, would be perfect"
              /\ gen_output.lines[2].s = gen_results2[1]["food_name"]
              /\ gen_output.lines[2].t = gen_query2
              /\ \A p \in 1..2 : gen_output.lines[p].items = <<>>

\* The gateway raised with no result for the first query and two for the
\* second: the sentence names the first query as the one without results.
C12_Witness ==
    /\ Compared
    /\ gateway.kind = "raised"
    /\ gen_results = <<>>
    /\ Len(gen_results2) = 2
    /\ gen_output.lines[1].t = gen_query

\* C13: when the gateway returns a text of fewer than 50 characters, the
\* empty text included, generate_llm_comparison discards it and returns the
\* deterministic comparison, as generate_llm_rag_response returns its
\* fallback.
C13_ShortComparisonDiscarded ==
    (Compared /\ gateway.kind = "text"
              /\ TextLen(Strip(gateway.text)) < MinResponseLen) =>
        gen_output = SimpleComparison(gen_query, gen_query2,
                                      gen_results, gen_results2)

----------------------------------------------------------------------------
(* Loading and indexing as functions of the data file *)

\* Data files whose records differ in their food_id only: 7, "7", "7_1", "7_2".
RawIds == {IntId(7), StrId(<<7>>), StrId(<<7, 1>>), StrId(<<7, 2>>)}

IdSources ==
    UNION {{ListSource([p \in 1..n |->
                           [RawItem(p) EXCEPT !["food_id"] = ids[p]]]) :
               ids \in [1..n -> RawIds]} : n \in 0..MaxCatalog}

\* Data files whose records differ in the fields they have: all of them, all
\* but one, the name only, none.
RecordFields ==
    {"food_id", "food_name", "food_description", "cuisine_type",
     "food_calories_per_serving", "food_ingredients", "food_features"}

Without(rec, keys) == [k \in (DOMAIN rec) \ keys |-> rec[k]]

FieldRecords ==
    {Without(RawItem(1), keys) :
        keys \in {{}} \cup {{f} : f \in RecordFields}
                 \cup {RecordFields \ {"food_name"}, DOMAIN RawItem(1)}}

FieldSources ==
    UNION {{ListSource(records) : records \in [1..n -> FieldRecords]} :
              n \in 0..MaxRecords}

LoadSources == IdSources \cup FieldSources \cup {Malformed}

DoLoad ==
    /\ stage = "start"
    /\ \E src \in LoadSources : LoadFoodData(src)
    /\ stage' = "loaded"

\* create_similarity_search_collection(client, collection_name).
CreateCollection ==
    /\ stage \in {"loaded", "populated"}
    /\ collection' = CreateCollectionReturn(collection)
    /\ populated' = FALSE
    /\ populate_raised' = FALSE
    /\ upserts' = 0
    /\ stage' = "created"
    /\ UNCHANGED <<loadVars, searchVars, genVars, sessVars>>

\* populate_similarity_collection(collection, food_items), once more.
Upsert ==
    /\ stage \in {"created", "populated"}
    /\ upserts < MaxUpserts
    /\ PopulateCollection(collection, food_data)
    /\ stage' = "populated"
    /\ UNCHANGED <<loadVars, searchVars, genVars, sessVars>>

LoadNext ==
    \/ DoLoad
    \/ CreateCollection
    \/ Upsert

LoadSpec == Init /\ [][LoadNext]_vars

----------------------------------------------------------------------------
(* Properties of loading and indexing (LoadSpec) *)

AllNamed == \A p \in 1..Len(food_data) : Has(food_data[p], "food_name")
DocIds == [p \in 1..Len(collection) |-> collection[p].id]
IdsBefore(p) == {DocIds[q] : q \in 1..(p - 1)}

\* C14: for every catalog of named items, whatever their source ids (ids
\* that look like "7_1" included), populate_similarity_collection gives each
\* item one document id, the ids are pairwise distinct, an item whose id
\* nothing earlier took keeps it, and otherwise it gets X_c for the
\* smallest c >= 1 such that X_c is not taken; ids "7", "7" give "7", "7_1".
C14_UniqueIds ==
    (stage = "populated" /\ upserts = 1 /\ AllNamed) =>
        /\ Len(collection) = Len(food_data)
        /\ \A p, q \in 1..Len(collection) : p # q => DocIds[p] # DocIds[q]
        /\ \A p \in 1..Len(collection) :
              LET base == food_data[p]["food_id"]
              IN IF base \notin IdsBefore(p)
                 THEN DocIds[p] = base
                 ELSE \E c \in 1..Len(collection) :
                         /\ DocIds[p] = base \o <<c>>
                         /\ base \o <<c>> \notin IdsBefore(p)
                         /\ \A b \in 1..(c - 1) : base \o <<b>> \in IdsBefore(p)
        /\ (/\ Len(food_data) = 2
            /\ food_data[1]["food_id"] = <<7>>
            /\ food_data[2]["food_id"] = <<7>>) =>
               DocIds = << <<7>>, <<7, 1>> >>

\* The ids "7_1", "7", "7" were indexed as "7_1", "7", "7_2".
C14_Witness ==
    /\ stage = "populated"
    /\ ~populate_raised
    /\ Len(food_data) = 3
    /\ food_data[1]["food_id"] = <<7, 1>>
    /\ food_data[2]["food_id"] = <<7>>
    /\ food_data[3]["food_id"] = <<7>>
    /\ DocIds = << <<7, 1>>, <<7>>, <<7, 2>> >>

\* C15: after populate_similarity_collection has been called once or twice
\* with the catalog (of named items) on a newly created collection, the
\* collection holds exactly len(catalog) documents; and a collection created
\* again under its name holds no document.
C15_IdempotentUpsert ==
    /\ (stage = "populated" /\ AllNamed) =>
           Len(collection) = Len(food_data)
    /\ stage = "created" => collection = <<>>

\* Three items were upserted twice, and three documents are held.
C15_Witness ==
    /\ stage = "populated"
    /\ upserts = 2
    /\ Len(food_data) = 3
    /\ Len(collection) = 3

\* C16: load_food_data never fails on a missing optional field and returns
\* a catalog of the length and order of its input in which a missing
\* food_calories_per_serving is 0, a missing cuisine_type "Unknown", a missing
\* food_description "", missing food_ingredients [], a missing food_id the
\* string of the 1-based position; fields that are present are kept, and
\* food_id as its string.
C16_LoadDefaults ==
    (stage # "start" /\ source.kind = "list") =>
        /\ ~load_raised
        /\ Len(food_data) = Len(source.records)
        /\ \A p \in 1..Len(source.records) :
              LET rec == source.records[p]
                  item == food_data[p]
              IN /\ item["food_calories_per_serving"] =
                       IF Has(rec, "food_calories_per_serving")
                       THEN rec["food_calories_per_serving"] ELSE 0
                 /\ item["cuisine_type"] =
                       IF Has(rec, "cuisine_type")
                       THEN rec["cuisine_type"] ELSE "Unknown"
                 /\ item["food_description"] =
                       IF Has(rec, "food_description")
                       THEN rec["food_description"] ELSE ""
                 /\ item["food_ingredients"] =
                       IF Has(rec, "food_ingredients")
                       THEN rec["food_ingredients"] ELSE <<>>
                 /\ item["food_id"] =
                       IF ~Has(rec, "food_id") THEN <<p>>
                       ELSE IF rec["food_id"].type = "int"
                            THEN <<rec["food_id"].n>>
                            ELSE rec["food_id"].parts
                 /\ Has(rec, "food_name") =>
                       item["food_name"] = rec["food_name"]
                 /\ Has(rec, "cooking_method") =>
                       item["cooking_method"] = rec["cooking_method"]

\* The second of two records had no food_id and no calories: "2" and 0.
C16_Witness ==
    /\ stage = "loaded"
    /\ Len(source.records) = 2
    /\ ~Has(source.records[2], "food_id")
    /\ ~Has(source.records[2], "food_calories_per_serving")
    /\ ~Has(source.records[2], "cuisine_type")
    /\ food_data[2]["food_id"] = <<2>>
    /\ food_data[2]["food_calories_per_serving"] = 0
    /\ food_data[2]["cuisine_type"] = "Unknown"

\* C17: load_food_data fails (DataFormatError) when the source is not a list
\* of mapping records, an outcome distinct from the valid empty catalog.
C17_MalformedSourceFails ==
    (stage # "start" /\ source.kind = "malformed") => load_raised

\* C18: a record without food_name is treated as named "": loading it and
\* populating the collection from the catalog complete without failure,
\* and its document carries the name "".
C18_MissingNameIsEmpty ==
    (stage = "populated" /\ upserts = 1) =>
        /\ ~load_raised
        /\ ~AllNamed => ~populate_raised
        /\ \A p \in 1..Len(food_data) :
              ~Has(food_data[p], "food_name") =>
                  /\ p <= Len(collection)
                  /\ collection[p].metadata.name = ""

----------------------------------------------------------------------------
(* Properties of start-up (Spec) *)

\* C19: an empty catalog is a valid state that can be queried: loading an
\* empty list succeeds with the empty catalog, the caller goes on to build
\* the index instead of exiting, and every search of that index returns the
\* empty sequence without error.
C19_EmptyCatalogQueryable ==
    (stage # "start" /\ source = ListSource(<<>>)) =>
        /\ ~load_raised
        /\ food_data = <<>>
        /\ stage # "exited"
        /\ Searched => (search_results = <<>> /\ ~search_raised)

----------------------------------------------------------------------------
(* Every operation: start-up and search, generation, comparison *)

AllInit ==
    \/ Init
    \/ GenInit
    \/ CmpInit

AllNext ==
    \/ Next
    \/ GenNext
    \/ CmpNext

AllSpec == AllInit /\ [][AllNext]_vars

\* C20: no retry, no caching: a call of perform_similarity_search or of
\* perform_filtered_similarity_search issues exactly one query to the
\* index; a call of generate_llm_rag_response or generate_llm_comparison
\* invokes the gateway exactly once, also when that invocation fails; and
\* generate_fallback_response, generate_simple_comparison and
\* prepare_context_for_llm never invoke it.
C20_NoRetryNoCaching ==
    /\ Searched => queries_issued = 1
    /\ (Generated \/ Compared) =>
           (gateway_calls = 1 /\ gateway \in GatewayOutcomes)
    /\ (FellBack \/ ComparedSimply \/ Prepared) =>
           (gateway_calls = 0 /\ gateway = IdleGateway)

\* The gateway raised in generate_llm_rag_response and was called once.
C20_Witness ==
    /\ Generated
    /\ gateway.kind = "raised"
    /\ gateway_calls = 1
    /\ gen_output = FallbackResponse(gen_query, gen_results)

----------------------------------------------------------------------------
(* The interactive sessions: what is typed, and what a handler makes of it *)

\* A line typed at input(): a word, with or without whitespace around it.
Typed(pad, word) == [pad |-> pad, word |-> word]

\* str.strip() leaves the word; a line of whitespace only leaves "".
StripInput(typed) == typed.word

\* str.lower() and str.title() on the words that are typed here.
Lower(word) ==
    CASE word = "QUIT" -> "quit"
      [] word = "Help" -> "help"
      [] word = "Compare" -> "compare"
      [] OTHER -> word

Title(word) ==
    CASE word = "italian" -> "Italian"
      [] word = "THAI" -> "Thai"
      [] OTHER -> word

\* str.isdigit() and int() on the words that are typed here.
Digits == [word \in {"0", "2", "99", "300"} |->
              CASE word = "0" -> 0
                [] word = "2" -> 2
                [] word = "99" -> 99
                [] OTHER -> 300]
IsDigit(word) == word \in DOMAIN Digits
IntOf(word) == Digits[word]

\* The list `cuisines` of perform_cuisine_filtered_search.
Cuisines ==
    <<"Italian", "Thai", "Mexican", "Indian", "Japanese", "French",
      "Mediterranean", "American", "Health Food", "Dessert", "International">>

EngineCall(fn, query, cuisine_filter, max_calories, n_results) ==
    [fn |-> fn, query |-> query, cuisine_filter |-> cuisine_filter,
     max_calories |-> max_calories, n_results |-> n_results]

\* What a handler does with its inputs before any result is known: the
\* searches it issues, the progress message it prints (or the rejection),
\* and the title it gives to display_search_results.
Plan(calls, message, title) ==
    [calls |-> calls, message |-> message, title |-> title]

Rejected(tag) == Plan(<<>>, Some(Line(tag, 0, "", "", <<>>)), None)

\* perform_basic_search.
BasicSearchPlan(query) ==
    IF query = "" THEN Rejected("Please enter a search term")
    ELSE Plan(<<EngineCall("perform_similarity_search", query, None, None, 5)>>,
              Some(Line("Searching for...", 0, query, "", <<>>)),
              Some(Line("Basic Search Results", 0, "", "", <<>>)))

\* perform_cuisine_filtered_search.
CuisineSearchPlan(query, cuisine_choice) ==
    IF query = "" THEN Rejected("Please enter a search term")
    ELSE LET idx == IF IsDigit(cuisine_choice) THEN IntOf(cuisine_choice) - 1
                    ELSE -1
             cuisine_filter ==
                 IF IsDigit(cuisine_choice)
                 THEN (IF 0 <= idx /\ idx < Len(Cuisines)
                       THEN Some(Cuisines[idx + 1]) ELSE None)
                 ELSE (IF cuisine_choice # ""
                       THEN Some(Title(cuisine_choice)) ELSE None)
         IN IF ~Truthy(cuisine_filter)
            THEN Rejected("Invalid cuisine selection or empty input.")
            ELSE Plan(<<EngineCall("perform_filtered_similarity_search", query,
                                   cuisine_filter, None, 5)>>,
                      Some(Line("Searching for, in cuisine...", 0, query,
                                cuisine_filter[1], <<>>)),
                      Some(Line("Cuisine-Filtered Results", 0, "",
                                cuisine_filter[1], <<>>)))

\* perform_calorie_filtered_search: `if max_calories` decides what the
\* message and the title say.
CalorieSearchPlan(query, max_calories_input) ==
    IF query = "" THEN Rejected("Please enter a search term")
    ELSE IF ~IsDigit(max_calories_input) /\ max_calories_input # ""
    THEN Rejected("Invalid calorie input. Please enter a number or leave blank.")
    ELSE LET max_calories == IF IsDigit(max_calories_input)
                             THEN Some(IntOf(max_calories_input)) ELSE None
             truthy == max_calories # None /\ max_calories[1] # 0
         IN Plan(<<EngineCall("perform_filtered_similarity_search", query,
                              None, max_calories, 5)>>,
                 Some(IF truthy
                      THEN Line("Searching for, with max calories...",
                                max_calories[1], query, "", <<>>)
                      ELSE Line("Searching for...", 0, query, "", <<>>)),
                 Some(IF truthy
                      THEN Line("Calorie-Filtered Results (under calories)",
                                max_calories[1], "", "", <<>>)
                      ELSE Line("Calorie-Filtered Results (any calories)",
                                0, "", "", <<>>)))

\* perform_combined_filtered_search: items lists the filters described,
\* t is the cuisine and n the calorie bound when they are.
CombinedSearchPlan(query, cuisine, max_calories_input) ==
    IF query = "" THEN Rejected("Please enter a search term")
    ELSE LET cuisine_filter == IF cuisine # "" THEN Some(Title(cuisine)) ELSE None
             max_calories == IF IsDigit(max_calories_input)
                             THEN Some(IntOf(max_calories_input)) ELSE None
             filter_description ==
                 (IF Truthy(cuisine_filter) THEN <<"cuisine: ">> ELSE <<>>)
                 \o (IF max_calories # None THEN <<"max calories: ">> ELSE <<>>)
             filter_text == IF Len(filter_description) > 0
                            THEN Join(filter_description) ELSE <<"no filters">>
             t == IF Truthy(cuisine_filter) THEN cuisine_filter[1] ELSE ""
             n == IF max_calories # None THEN max_calories[1] ELSE 0
         IN Plan(<<EngineCall("perform_filtered_similarity_search", query,
                              cuisine_filter, max_calories, 5)>>,
                 Some(Line("Searching for, with...", n, query, t, filter_text)),
                 Some(Line("Combined Filtered Results", n, "", t, filter_text)))

\* run_search_demonstrations: three fixed searches.
DemonstrationPlan ==
    Plan(<<EngineCall("perform_filtered_similarity_search", "creamy pasta",
                      Some("Italian"), None, 3),
           EngineCall("perform_filtered_similarity_search", "healthy meal",
                      None, Some(300), 3),
           EngineCall("perform_filtered_similarity_search", "light fresh meal",
                      Some("Japanese"), Some(250), 3)>>,
         None,
         Some(Line("Asian Light Dishes", 0, "", "", <<>>)))

\* handle_food_search and handle_enhanced_rag_query.
FoodSearchPlan(query) ==
    Plan(<<EngineCall("perform_similarity_search", query, None, None, 5)>>,
         Some(Line("Searching for...", 0, query, "", <<>>)), None)

RagQueryPlan(query) ==
    Plan(<<EngineCall("perform_similarity_search", query, None, None, 3)>>,
         Some(Line("Searching vector database for:", 0, query, "", <<>>)), None)

\* `if not query1 and not query2`: one empty query passes.
ComparisonPlanBothEmpty(query1, query2) ==
    IF query1 = "" /\ query2 = ""
    THEN Rejected("Please enter both queries for comparison")
    ELSE Plan(<<EngineCall("perform_similarity_search", query1, None, None,
                           ComparisonResults),
                EngineCall("perform_similarity_search", query2, None, None,
                           ComparisonResults)>>,
              Some(Line("Analyzing, vs, with AI...", 0, query1, query2, <<>>)),
              None)

\* handle_enhanced_comparison_mode.
ComparisonPlan(query1, query2) ==
    IF query1 = "" \/ query2 = ""
    THEN Rejected("Please enter both queries for comparison")
    ELSE Plan(<<EngineCall("perform_similarity_search", query1, None, None,
                           ComparisonResults),
                EngineCall("perform_similarity_search", query2, None, None,
                           ComparisonResults)>>,
              Some(Line("Analyzing, vs, with AI...", 0, query1, query2, <<>>)),
              None)

\* The end of an iteration of enhanced_rag_food_chatbot after a free-text
\* query, without the trimming.
AppendHistoryUntrimmed(history, user_input) == Append(history, user_input)

\* The end of an iteration of enhanced_rag_food_chatbot after a free-text
\* query: append, and keep the last three when there are more than five.
AppendHistory(history, user_input) ==
    LET appended == Append(history, user_input)
    IN IF Len(appended) > 5
       THEN SubSeq(appended, Len(appended) - 2, Len(appended))
       ELSE appended

----------------------------------------------------------------------------
(* The session loops: interactive_food_chatbot, interactive_advanced_search, *)
(* enhanced_rag_food_chatbot.  An iteration reads its lines and runs its     *)
(* handler (stage "..._shown"); then the loop is back at its prompt.         *)

\* The lines that are typed.
QueryLines ==
    {Typed(FALSE, ""), Typed(TRUE, ""), Typed(FALSE, "pasta"), Typed(TRUE, "soup")}
CommandLines ==
    {Typed(FALSE, "help"), Typed(TRUE, "Help"), Typed(FALSE, "QUIT"),
     Typed(FALSE, "q"), Typed(FALSE, "Compare")}
CuisineLines ==
    {Typed(FALSE, ""), Typed(TRUE, "italian"), Typed(FALSE, "2"),
     Typed(FALSE, "99"), Typed(FALSE, "0")}
CalorieLines ==
    {Typed(FALSE, ""), Typed(TRUE, "0"), Typed(FALSE, "300"), Typed(FALSE, "abc")}

\* The data file of the sessions: one record.
SessionSource == ListSource(<<RawItem(1)>>)

\* The replies of the gateway in the sessions: a raise, no content, the
\* empty text, a text of the least sufficient length.
SessionGatewayOutcomes ==
    {gw \in GatewayOutcomes :
        gw.kind = "text" =>
            /\ gw.text.lead = 0
            /\ gw.text.trail = 0
            /\ gw.text.core \in {0, MinResponseLen}}

\* What a search call can come to: the where clause it hands to the index,
\* what the index does, and what the function returns.
SearchOutcomes(c) ==
    LET where == IF c.fn = "perform_similarity_search" THEN NoFilter
                 ELSE WhereClause(c.cuisine_filter, c.max_calories)
        Outcome(raised, hits) ==
            [where |-> where, hits |-> hits, raised |-> raised,
             ret |-> IF c.fn = "perform_similarity_search"
                     THEN SimilaritySearchReturn(raised, hits)
                     ELSE FilteredSearchReturn(raised, hits)]
    IN {Outcome(TRUE, <<>>)}
       \cup {Outcome(FALSE, hits) : hits \in IndexAnswers(c.n_results, where)}

Observe(c, o) ==
    /\ call' = c
    /\ where_clause' = o.where
    /\ queries_issued' = 1
    /\ raw_hits' = o.hits
    /\ index_raised' = o.raised
    /\ search_results' = o.ret.value
    /\ search_raised' = o.ret.raised

\* A handler that searches and displays: the calls of its plan are issued in
\* order, and the last one is the one observed.
Serve(typed, plan, next_stage) ==
    /\ inputs' = typed
    /\ engine_calls' = plan.calls
    /\ shown' = [message |-> plan.message, title |-> plan.title]
    /\ IF plan.calls = <<>>
       THEN UNCHANGED searchVars
       ELSE \E o \in SearchOutcomes(plan.calls[Len(plan.calls)]) :
               Observe(plan.calls[Len(plan.calls)], o)
    /\ stage' = next_stage
    /\ UNCHANGED <<loadVars, indexVars, genVars, conversation_history, handled>>

\* The if/elif chain of the two chatbot loops.
Branch(user_input, commands) ==
    IF user_input = "" THEN "empty"
    ELSE IF Lower(user_input) \in {"quit", "exit", "q"} THEN "quit"
    ELSE IF Lower(user_input) \in {"help", "h"} THEN "help"
    ELSE IF Lower(user_input) \in commands THEN "compare"
    ELSE "query"

Notice(tag) == Plan(<<>>, Some(Line(tag, 0, "", "", <<>>)), None)

\* interactive_food_chatbot: one iteration.
InteractiveIteration ==
    /\ stage = "interactive"
    /\ \E typed \in QueryLines \cup CommandLines :
         LET user_input == StripInput(typed)
             branch == Branch(user_input, {})
         IN CASE branch = "empty" ->
                   Serve(<<typed>>,
                         Notice("Please enter a search term or 'help' for commands"),
                         "interactive_shown")
              [] branch = "quit" ->
                   Serve(<<typed>>, Notice("Goodbye!"), "exited")
              [] branch = "help" ->
                   Serve(<<typed>>, Notice("HELP MENU"), "interactive_shown")
              [] OTHER ->
                   Serve(<<typed>>, FoodSearchPlan(user_input),
                         "interactive_shown")

\* interactive_advanced_search: the choices 1 to 5, and the others.
PerformBasicSearch ==
    /\ stage = "advanced"
    /\ \E typed \in QueryLines :
         Serve(<<typed>>, BasicSearchPlan(StripInput(typed)), "advanced_shown")

PerformCuisineFilteredSearch ==
    /\ stage = "advanced"
    /\ \E typed \in QueryLines, cuisine_choice \in CuisineLines :
         Serve(<<typed, cuisine_choice>>,
               CuisineSearchPlan(StripInput(typed), StripInput(cuisine_choice)),
               "advanced_shown")

PerformCalorieFilteredSearch ==
    /\ stage = "advanced"
    /\ \E typed \in QueryLines, max_calories_input \in CalorieLines :
         Serve(<<typed, max_calories_input>>,
               CalorieSearchPlan(StripInput(typed),
                                 StripInput(max_calories_input)),
               "advanced_shown")

PerformCombinedFilteredSearch ==
    /\ stage = "advanced"
    /\ \E typed \in QueryLines, cuisine \in CuisineLines,
          max_calories_input \in CalorieLines :
         Serve(<<typed, cuisine, max_calories_input>>,
               CombinedSearchPlan(StripInput(typed), StripInput(cuisine),
                                  StripInput(max_calories_input)),
               "advanced_shown")

RunSearchDemonstrations ==
    /\ stage = "advanced"
    /\ Serve(<<>>, DemonstrationPlan, "advanced_shown")

AdvancedOtherChoice ==
    /\ stage = "advanced"
    /\ \E choice \in {"6", "7", "x"} :
         Serve(<<Typed(FALSE, choice)>>,
               Notice(CASE choice = "6" -> "ADVANCED SEARCH HELP"
                        [] choice = "7" -> "Exiting Advanced Search System. Goodbye!"
                        [] OTHER -> "Invalid option. Please select 1-7."),
               IF choice = "7" THEN "exited" ELSE "advanced_shown")

\* enhanced_rag_food_chatbot: an iteration that is not a search.
RagCommand ==
    /\ stage = "rag"
    /\ \E typed \in QueryLines \cup CommandLines :
         LET branch == Branch(StripInput(typed), {"compare"})
         IN /\ branch \in {"empty", "quit", "help"}
            /\ Serve(<<typed>>,
                     Notice(CASE branch = "empty" ->
                                   "Please tell me what kind of food you're looking for!"
                              [] branch = "quit" ->
                                   "Thank you for using the Enhanced RAG Food Chatbot!"
                              [] OTHER -> "ENHANCED RAG CHATBOT HELP"),
                     IF branch = "quit" THEN "exited" ELSE "rag_shown")

\* enhanced_rag_food_chatbot: a free-text query, handle_enhanced_rag_query.
\* The search returns, and unless it returned nothing the response is
\* generated from its results.
RagQuery ==
    /\ stage = "rag"
    /\ Len(handled) < MaxInputs
    /\ \E typed \in QueryLines \cup CommandLines :
         LET query == StripInput(typed)
             plan == RagQueryPlan(query)
         IN /\ Branch(query, {"compare"}) = "query"
            /\ inputs' = <<typed>>
            /\ engine_calls' = plan.calls
            /\ shown' = [message |-> plan.message, title |-> plan.title]
            /\ \E o \in SearchOutcomes(plan.calls[1]) :
                 /\ Observe(plan.calls[1], o)
                 /\ IF o.ret.value = <<>>
                    THEN UNCHANGED genVars
                    ELSE \E gw \in SessionGatewayOutcomes :
                           LET ret == RagResponseReturn(query, o.ret.value, gw)
                           IN /\ gen_query' = query
                              /\ gen_results' = o.ret.value
                              /\ gen_op' = "generate_llm_rag_response"
                              /\ prompt' = [query |-> query,
                                            context |-> PrepareContext(query,
                                                            o.ret.value)]
                              /\ gateway' = gw
                              /\ gateway_calls' = ret.calls
                              /\ gen_output' = ret.value
                              /\ gen_raised' = ret.raised
                              /\ UNCHANGED <<gen_query2, gen_results2>>
    /\ stage' = "rag_shown"
    /\ UNCHANGED <<loadVars, indexVars, conversation_history, handled>>

\* enhanced_rag_food_chatbot: 'compare', handle_enhanced_comparison_mode.
RagCompare ==
    /\ stage = "rag"
    /\ \E typed \in CommandLines, typed1 \in QueryLines, typed2 \in QueryLines :
         LET query1 == StripInput(typed1)
             query2 == StripInput(typed2)
             plan == ComparisonPlan(query1, query2)
         IN /\ Branch(StripInput(typed), {"compare"}) = "compare"
            /\ inputs' = <<typed, typed1, typed2>>
            /\ engine_calls' = plan.calls
            /\ shown' = [message |-> plan.message, title |-> plan.title]
            /\ IF plan.calls = <<>>
               THEN UNCHANGED <<searchVars, genVars>>
               ELSE \E o1 \in SearchOutcomes(plan.calls[1]),
                       o2 \in SearchOutcomes(plan.calls[2]),
                       gw \in SessionGatewayOutcomes :
                      LET ret == ComparisonReturn(query1, query2, o1.ret.value,
                                                  o2.ret.value, gw)
                      IN /\ Observe(plan.calls[2], o2)
                         /\ gen_query' = query1
                         /\ gen_results' = o1.ret.value
                         /\ gen_query2' = query2
                         /\ gen_results2' = o2.ret.value
                         /\ gen_op' = "generate_llm_comparison"
                         /\ prompt' = [query |-> query1,
                                       context |-> PrepareContext(query1,
                                                       Take(o1.ret.value,
                                                            ContextLimit))]
                         /\ gateway' = gw
                         /\ gateway_calls' = ret.calls
                         /\ gen_output' = ret.value
                         /\ gen_raised' = ret.raised
    /\ stage' = "rag_shown"
    /\ UNCHANGED <<loadVars, indexVars, conversation_history, handled>>

\* A free-text query, as the claim about the history means it: a line that
\* is neither empty nor one of the commands.
IsFreeText(user_input) ==
    /\ user_input # ""
    /\ Lower(user_input) \notin {"quit", "exit", "q", "help", "h", "compare"}

\* The end of the iteration: the chatbot appends the query it has handled to
\* its history; every loop is back at its prompt.
NextPrompt ==
    /\ stage \in {"interactive_shown", "advanced_shown", "rag_shown"}
    /\ stage' = CASE stage = "interactive_shown" -> "interactive"
                  [] stage = "advanced_shown" -> "advanced"
                  [] OTHER -> "rag"
    /\ LET user_input == IF inputs = <<>> THEN "" ELSE StripInput(inputs[1])
       IN /\ conversation_history' =
                IF stage = "rag_shown" /\ Branch(user_input, {"compare"}) = "query"
                THEN AppendHistory(conversation_history, user_input)
                ELSE conversation_history
          /\ handled' =
                IF stage = "rag_shown" /\ IsFreeText(user_input)
                THEN Append(handled, user_input)
                ELSE handled
    /\ inputs' = <<>>
    /\ engine_calls' = <<>>
    /\ shown' = NoShown
    /\ call' = NoCall
    /\ where_clause' = NoFilter
    /\ queries_issued' = 0
    /\ raw_hits' = <<>>
    /\ index_raised' = FALSE
    /\ search_results' = <<>>
    /\ search_raised' = FALSE
    /\ gen_query' = ""
    /\ gen_results' = <<>>
    /\ gen_query2' = ""
    /\ gen_results2' = <<>>
    /\ gen_op' = "none"
    /\ prompt' = NoPrompt
    /\ gateway' = IdleGateway
    /\ gateway_calls' = 0
    /\ gen_output' = EmptyText
    /\ gen_raised' = FALSE
    /\ UNCHANGED <<loadVars, indexVars>>

\* main() of one of the three programs has loaded and indexed the data file
\* and enters its loop.
SessInit ==
    /\ source = SessionSource
    /\ food_data = LoadReturn(SessionSource).value
    /\ load_raised = FALSE
    /\ stage \in {"interactive", "advanced", "rag"}
    /\ collection = BuildDocuments(food_data, 1, {}, <<>>)
    /\ populated = TRUE
    /\ populate_raised = FALSE
    /\ upserts = 1
    /\ SearchIdle
    /\ NoInputs
    /\ GenIdle
    /\ SessIdle

SessNext ==
    \/ InteractiveIteration
    \/ PerformBasicSearch
    \/ PerformCuisineFilteredSearch
    \/ PerformCalorieFilteredSearch
    \/ PerformCombinedFilteredSearch
    \/ RunSearchDemonstrations
    \/ AdvancedOtherChoice
    \/ RagCommand
    \/ RagQuery
    \/ RagCompare
    \/ NextPrompt

SessSpec == SessInit /\ [][SessNext]_vars

----------------------------------------------------------------------------
(* Properties of the sessions (SessSpec) *)

TypedQueries == {StripInput(inputs[p]) : p \in 1..Len(inputs)}
DemonstrationQueries ==
    {DemonstrationPlan.calls[p].query : p \in 1..Len(DemonstrationPlan.calls)}

\* C21: in every session loop, whatever is typed, no search is called with
\* an empty query: every call a handler issues carries a non-empty query,
\* which is one of the lines typed, stripped (or a query of the
\* demonstrations), and a handler that issues no call queries the index not
\* once.
C21_NoEmptyQuery ==
    /\ \A p \in 1..Len(engine_calls) :
          /\ engine_calls[p].query # ""
          /\ engine_calls[p].query \in TypedQueries \cup DemonstrationQueries
    /\ Searched =>
          /\ call.query # ""
          /\ engine_calls # <<>>
          /\ call = engine_calls[Len(engine_calls)]
    /\ engine_calls = <<>> => (call = NoCall /\ queries_issued = 0)

\* The combined search got a line of whitespace as its query, a cuisine and
\* a calorie bound: no search was called.
C21_Witness ==
    /\ stage = "advanced_shown"
    /\ Len(inputs) = 3
    /\ inputs[1] = Typed(TRUE, "")
    /\ inputs[2] = Typed(TRUE, "italian")
    /\ inputs[3] = Typed(FALSE, "300")
    /\ engine_calls = <<>>
    /\ queries_issued = 0

IsSuffix(short, long) ==
    /\ Len(short) <= Len(long)
    /\ short = SubSeq(long, Len(long) - Len(short) + 1, Len(long))

\* C22: in the chatbot loop conversation_history never holds more than 5
\* entries and is a suffix, in the order of their issue, of the free-text
\* queries handled so far; so a command or an empty line adds no entry.
C22_HistoryBounded ==
    /\ Len(conversation_history) <= 5
    /\ IsSuffix(conversation_history, handled)

\* After the sixth query the history holds the last three, in order.
C22_Witness ==
    /\ stage = "rag"
    /\ Len(handled) = 6
    /\ conversation_history = SubSeq(handled, 4, 6)
    /\ conversation_history[2] # conversation_history[3]

CalorieTitles ==
    {"Calorie-Filtered Results (under calories)",
     "Calorie-Filtered Results (any calories)"}

\* C23: in the calorie-filtered search, whenever a calorie bound, 0
\* included, is passed to the search, the progress message and the title of
\* the results say that bound; "any calories" is shown only when no bound
\* was passed and none applied.
C23_CalorieFilterDescribed ==
    (/\ stage = "advanced_shown"
     /\ shown.title # None
     /\ shown.title[1].tag \in CalorieTitles
     /\ Len(engine_calls) = 1) =>
        LET c == engine_calls[1]
        IN /\ c.max_calories # None =>
                 /\ shown.message[1].tag = "Searching for, with max calories..."
                 /\ shown.message[1].n = c.max_calories[1]
                 /\ shown.title[1].tag = "Calorie-Filtered Results (under calories)"
                 /\ shown.title[1].n = c.max_calories[1]
           /\ shown.title[1].tag = "Calorie-Filtered Results (any calories)" =>
                 /\ c.max_calories = None
                 /\ (Searched /\ ~index_raised) => where_clause = NoFilter

\* A line of the given tag stands in the p-th option block of the context.
DetailLineIn(context, p, tag) ==
    \E k \in 1..Len(context.lines) :
        /\ context.lines[k].tag = tag
        /\ Cardinality({j \in 1..k : context.lines[j].tag = "Option"}) = p

\* C24: in handle_enhanced_rag_query, the context handed to the gateway
\* has, in the block of each of the first three hits, the ingredients / health
\* benefits / cooking method / taste profile line whenever the metadata of
\* the hit in the index has that field non-empty.
C24_DetailFieldsReachContext ==
    (stage = "rag_shown" /\ Generated) =>
        \A p \in 1..Min(Len(raw_hits), ContextLimit) :
            LET metadata == raw_hits[p].metadata
            IN /\ metadata.ingredients # <<>> =>
                     DetailLineIn(prompt.context, p, "Key ingredients")
               /\ metadata.health_benefits # "" =>
                     DetailLineIn(prompt.context, p, "Health benefits")
               /\ metadata.cooking_method # "" =>
                     DetailLineIn(prompt.context, p, "Cooking method")
               /\ metadata.taste_profile # <<>> =>
                     DetailLineIn(prompt.context, p, "Taste profile")

====
